---- MODULE Spec2Model ----
(***************************************************************************)
(* Model of src/app.py (ahuang11/squarify): the Panel widgets, the link    *)
(* callbacks between them, and the submit handler process_url with the two *)
(* image transformations add_transparency and squarify_image.              *)
(*                                                                         *)
(* An image is a record [w, h, px]; px is the row-major sequence of its    *)
(* pixels, a pixel is <<r, g, b, a>> with channels in 0..255 (the RGBA     *)
(* view Pillow gives of the decoded picture).  A widget that holds no      *)
(* value yet ("N/A", no object) holds the empty sequence.                  *)
(***************************************************************************)
EXTENDS Integers, Sequences, FiniteSets, TLC

VARIABLES text_input, submit_button, file_download, input_png, output_png,
          input_card, output_card, size_spinner, max_static_text,
          color_picker, transparency_checkbox, detect_checkbox,
          match_checkbox, notifications, call, requested, floor_since

vars == <<text_input, submit_button, file_download, input_png, output_png,
          input_card, output_card, size_spinner, max_static_text,
          color_picker, transparency_checkbox, detect_checkbox,
          match_checkbox, notifications, call, requested, floor_since>>

(***************************************************************************)
(* Bounds of the model and constants of the program.                       *)
(***************************************************************************)
MaxDim == 3

MaxChannel == 255

DefaultSize == 500

Max(a, b) == IF a < b THEN b ELSE a

Min(a, b) == IF a < b THEN a ELSE b

Abs(a) == IF a < 0 THEN 0 - a ELSE a

(***************************************************************************)
(* The pictures a URL can serve.  Pixels are drawn from a palette that     *)
(* holds opaque, half transparent and fully transparent pixels; picture    *)
(* (w, h, start) lays the palette out row by row from the entry after      *)
(* start, so that Starts decides the pixel at the top left corner.         *)
(***************************************************************************)
Palette ==
    << <<255, 255, 255, 255>>, <<0, 0, 0, 255>>, <<10, 20, 30, 255>>,
       <<128, 128, 128, 128>>, <<10, 20, 30, 0>>, <<255, 255, 255, 0>>,
       <<0, 0, 0, 0>> >>

Picture(w, h, start) ==
    [w |-> w, h |-> h,
     px |-> [i \in 1..(w * h) |-> Palette[((start + i - 1) % Len(Palette)) + 1]]]

Starts == {0, 4}

Pictures ==
    {Picture(w, h, s) : w \in 1..MaxDim, h \in 1..MaxDim, s \in Starts}

NoImage == [w |-> 0, h |-> 0, px |-> <<>>]

\* What urlopen and Image.open make of a URL: the fetch fails, the bytes are
\* no image, or the bytes decode to a picture.
Resources ==
    {[kind |-> "unreachable", image |-> NoImage],
     [kind |-> "not_image", image |-> NoImage]}
    \cup {[kind |-> "image", image |-> p] : p \in Pictures}

\* Pixel (x, y) of an image, 0-based as in Pillow and numpy.
PixelAt(image, x, y) == image.px[y * image.w + x + 1]

RGB(pixel) == <<pixel[1], pixel[2], pixel[3]>>

(***************************************************************************)
(* Colours of the colour picker: a "#rrggbb" string, kept as its six hex   *)
(* digits.                                                                 *)
(***************************************************************************)
\* "#{:02x}{:02x}{:02x}".format(r, g, b)
FormatHex(r, g, b) ==
    <<r \div 16, r % 16, g \div 16, g % 16, b \div 16, b % 16>>

\* ImageColor.getrgb of a "#rrggbb" string
GetRGB(hex) ==
    <<hex[1] * 16 + hex[2], hex[3] * 16 + hex[4], hex[5] * 16 + hex[6]>>

\* The colours a user picks by hand in the model: white (the picker's
\* initial "#FFFFFF") and black.
PickerChoices == {FormatHex(255, 255, 255), FormatHex(0, 0, 0)}

(***************************************************************************)
(* add_transparency                                                        *)
(***************************************************************************)
\* np.ubyte((x * 255).astype(int)) of x = k / 255.0: the float product is
\* exactly k for every k in 0..255, so the truncation returns k.
Requantize(k) == (k * MaxChannel) \div MaxChannel

\* The channel pairs of the modelled palette and picker colours for which the
\* float expression abs(p / 255.0 - t / 255.0) * 255 falls just below the
\* integer abs(p - t), so that astype(int) truncates to one less.
TruncLoss == {<<30, 128>>, <<128, 30>>}

\* (np.abs(p/255.0 - t/255.0) * 255).astype(int)
ChannelDistance(p, t) ==
    IF <<p, t>> \in TruncLoss THEN Abs(p - t) - 1 ELSE Abs(p - t)

\* Mutant of ExactAlpha: the mask without "| (alpha == 0)".
ExactAlphaColourOnly(pixel, target) ==
    IF RGB(pixel) = target THEN 0 ELSE MaxChannel

\* Lines 122-125: mask = rgb == target; alpha = where(mask | a == 0, 0, 1)
ExactAlpha(pixel, target) ==
    IF RGB(pixel) = target \/ pixel[4] = 0 THEN 0 ELSE MaxChannel

\* Lines 127-139: alpha = max of the three channel distances
FuzzyAlpha(pixel, target) ==
    Max(ChannelDistance(pixel[1], target[1]),
        Max(ChannelDistance(pixel[2], target[2]),
            ChannelDistance(pixel[3], target[3])))

\* Line 121 tests the widget object, "if match_checkbox:", not its value; a
\* Panel Checkbox defines neither __bool__ nor __len__, so the object is
\* truthy whatever the checkbox holds.
MatchBranch(match) == TRUE

\* Mutant of DetectColor: the corner read is image_array[-1, -1].
DetectColorLastPixel(image) ==
    LET p == PixelAt(image, image.w - 1, image.h - 1)
    IN  <<Requantize(p[1]), Requantize(p[2]), Requantize(p[3])>>

\* Line 112: r, g, b, _ = (image_array[0, 0] * 255).astype(int), the colour
\* found at the top left corner
DetectColor(image) ==
    LET p == PixelAt(image, 0, 0)
    IN  <<Requantize(p[1]), Requantize(p[2]), Requantize(p[3])>>

KeyPixel(pixel, target, match) ==
    <<Requantize(pixel[1]), Requantize(pixel[2]), Requantize(pixel[3]),
      IF MatchBranch(match) THEN ExactAlpha(pixel, target)
                            ELSE FuzzyAlpha(pixel, target)>>

\* The whole function: the new picker value, the notification it raises
\* (none when detection is off) and the keyed image.
add_transparency(image, detect, match, picker) ==
    LET rgb    == DetectColor(image)
        value  == IF detect THEN FormatHex(rgb[1], rgb[2], rgb[3]) ELSE picker
        target == GetRGB(value)
    IN  [picker |-> value,
         notes  |-> IF detect
                    THEN <<[kind |-> "info", hex |-> value, rgb |-> rgb]>>
                    ELSE <<>>,
         used   |-> target,
         image  |-> [w |-> image.w, h |-> image.h,
                     px |-> [i \in 1..Len(image.px) |->
                                KeyPixel(image.px[i], target, match)]]]

(***************************************************************************)
(* squarify_image                                                          *)
(***************************************************************************)
\* Mutant of Center: the division rounds up.
CenterCeil(max_size, extent) == (max_size - extent + 1) \div 2

\* Lines 92-93: center_x = (max_size - width) // 2
Center(max_size, extent) == (max_size - extent) \div 2

\* Mutant of EffectiveSize: the clamp is missing.
EffectiveSizeUnclamped(max_size, spinner) == spinner

\* Mutant of SpinnerAfter: the clamp is not written back to the widget.
SpinnerAfterUntouched(max_size, spinner) == spinner

\* Lines 86-89: desired_size, the spinner's value clamped to the picture's
\* longer side
EffectiveSize(max_size, spinner) ==
    IF max_size < spinner THEN max_size ELSE spinner

\* Lines 87-88: size_spinner.value after the call; the clamp is written back
\* to the widget
SpinnerAfter(max_size, spinner) ==
    IF max_size < spinner THEN max_size ELSE spinner

\* Line 95: Image.new("RGBA", (max_size, max_size), (255, 255, 255, 0))
BlankCanvas(max_size) ==
    [w |-> max_size, h |-> max_size,
     px |-> [i \in 1..(max_size * max_size) |-> <<255, 255, 255, 0>>]]

\* Mutant of Paste: paste(image, box, image), the picture as its own mask, so
\* that each channel is blended with the canvas by the source alpha.
PasteMasked(canvas, image, center_x, center_y) ==
    [w |-> canvas.w, h |-> canvas.h,
     px |-> [i \in 1..(canvas.w * canvas.h) |->
                LET x == (i - 1) % canvas.w
                    y == (i - 1) \div canvas.w
                    d == canvas.px[i]
                IN  IF /\ center_x <= x /\ x < center_x + image.w
                       /\ center_y <= y /\ y < center_y + image.h
                    THEN LET p == PixelAt(image, x - center_x, y - center_y)
                         IN  [c \in 1..4 |->
                                (p[c] * p[4] + d[c] * (MaxChannel - p[4]))
                                    \div MaxChannel]
                    ELSE d]]

\* Line 96: square_image.paste(image, (center_x, center_y)), no mask: the
\* pixels of the box are overwritten, alpha included.
Paste(canvas, image, center_x, center_y) ==
    [w |-> canvas.w, h |-> canvas.h,
     px |-> [i \in 1..(canvas.w * canvas.h) |->
                LET x == (i - 1) % canvas.w
                    y == (i - 1) \div canvas.w
                IN  IF /\ center_x <= x /\ x < center_x + image.w
                       /\ center_y <= y /\ y < center_y + image.h
                    THEN PixelAt(image, x - center_x, y - center_y)
                    ELSE canvas.px[i]]]

\* The resampling filter of Image.resize is Pillow's; the model takes the
\* source pixel under the centre of each output pixel.  Only the size of a
\* resampled picture is used by the properties below.
Resample(image, size) ==
    [w |-> size, h |-> size,
     px |-> [i \in 1..(size * size) |->
                LET x == (i - 1) % size
                    y == (i - 1) \div size
                IN  PixelAt(image, ((2 * x + 1) * image.w) \div (2 * size),
                                   ((2 * y + 1) * image.h) \div (2 * size))]]

\* Line 97: square_image.resize((desired_size, desired_size)).  Pillow
\* returns a copy when the size is the picture's own and raises ValueError
\* ("height and width must be > 0") for a size below 1.
Resize(image, size) ==
    IF image.w = size /\ image.h = size
    THEN [raised |-> FALSE, image |-> image]
    ELSE IF size < 1
    THEN [raised |-> TRUE, image |-> NoImage]
    ELSE [raised |-> FALSE, image |-> Resample(image, size)]

\* The whole function: what it writes to the widgets (both card titles, the
\* max size text, the spinner), the canvas it builds and what resize returns.
squarify_image(image, spinner) ==
    LET max_size     == Max(image.w, image.h)
        desired_size == EffectiveSize(max_size, spinner)
        center_x     == Center(max_size, image.w)
        center_y     == Center(max_size, image.h)
        canvas       == Paste(BlankCanvas(max_size), image, center_x, center_y)
        resized      == Resize(canvas, desired_size)
    IN  [input_title  |-> <<image.w, image.h>>,
         max_size     |-> max_size,
         spinner      |-> SpinnerAfter(max_size, spinner),
         desired_size |-> desired_size,
         output_title |-> <<desired_size, desired_size>>,
         center_x     |-> center_x,
         center_y     |-> center_y,
         canvas       |-> canvas,
         raised       |-> resized.raised,
         image        |-> resized.image]

(***************************************************************************)
(* The widgets as constructed (lines 196-267).                             *)
(***************************************************************************)
\* What the user can type into the URL field and into the spinner.
Urls == {<<>>, <<"u">>}

SizeChoices == {0 - 1, 0, MaxDim - 1, DefaultSize}

\* The run of process_url that has just returned; Idle after any other
\* event.  It records what the run read and computed, for the properties.
Idle ==
    [outcome |-> "idle", resource |-> [kind |-> "none", image |-> NoImage],
     keyed |-> FALSE, detect |-> FALSE, match |-> FALSE, picker |-> <<>>,
     used |-> <<>>, source |-> NoImage, squarified |-> FALSE, spinner |-> 0,
     max_size |-> 0, desired_size |-> 0, center_x |-> 0, center_y |-> 0,
     canvas |-> NoImage, result |-> NoImage]

Init ==
    /\ text_input = <<>>
    /\ submit_button = [disabled |-> TRUE, loading |-> FALSE]
    /\ file_download = [file |-> <<>>, disabled |-> TRUE]
    /\ input_png = [object |-> <<>>, loading |-> FALSE]
    /\ output_png = [object |-> <<>>, loading |-> FALSE]
    /\ input_card = <<>>
    /\ output_card = <<>>
    /\ size_spinner = DefaultSize
    /\ max_static_text = <<>>
    /\ color_picker = [value |-> FormatHex(255, 255, 255), disabled |-> TRUE]
    /\ transparency_checkbox = FALSE
    /\ detect_checkbox = [value |-> FALSE, disabled |-> TRUE]
    /\ match_checkbox = [value |-> FALSE, disabled |-> TRUE]
    /\ notifications = <<>>
    /\ call = Idle
    /\ requested = DefaultSize
    /\ floor_since = 0

(***************************************************************************)
(* Link callbacks (lines 182-193, 295-305).                                *)
(***************************************************************************)
\* target.disabled = len(event.new) == 0
disable_submit(new) == Len(new) = 0

\* target.disabled = not event.new
disable_transparency_widgets(new) == ~new

\* The user edits the URL field; the link to the submit button fires.
EditUrl(url) ==
    /\ url # text_input
    /\ text_input' = url
    /\ submit_button' = [submit_button EXCEPT !.disabled = disable_submit(url)]
    /\ call' = Idle
    /\ UNCHANGED <<file_download, input_png, output_png, input_card,
                   output_card, size_spinner, max_static_text, color_picker,
                   transparency_checkbox, detect_checkbox, match_checkbox,
                   notifications, requested, floor_since>>

\* The user toggles "Make background transparent"; its three links fire.
ToggleTransparency ==
    LET new == ~transparency_checkbox
    IN  /\ transparency_checkbox' = new
        /\ detect_checkbox' =
              [detect_checkbox EXCEPT !.disabled = disable_transparency_widgets(new)]
        /\ match_checkbox' =
              [match_checkbox EXCEPT !.disabled = disable_transparency_widgets(new)]
        /\ color_picker' =
              [color_picker EXCEPT !.disabled = disable_transparency_widgets(new)]
        /\ call' = Idle
        /\ UNCHANGED <<text_input, submit_button, file_download, input_png,
                       output_png, input_card, output_card, size_spinner,
                       max_static_text, notifications, requested, floor_since>>

\* The user toggles "Auto-detect color" (possible only while it is enabled);
\* detect_checkbox.link(color_picker, value="disabled") copies the new value.
ToggleDetect ==
    LET new == ~detect_checkbox.value
    IN  /\ ~detect_checkbox.disabled
        /\ detect_checkbox' = [detect_checkbox EXCEPT !.value = new]
        /\ color_picker' = [color_picker EXCEPT !.disabled = new]
        /\ call' = Idle
        /\ UNCHANGED <<text_input, submit_button, file_download, input_png,
                       output_png, input_card, output_card, size_spinner,
                       max_static_text, transparency_checkbox, match_checkbox,
                       notifications, requested, floor_since>>

\* The user toggles "Match color exactly"; nothing is linked to it.
ToggleMatch ==
    /\ ~match_checkbox.disabled
    /\ match_checkbox' = [match_checkbox EXCEPT !.value = ~match_checkbox.value]
    /\ call' = Idle
    /\ UNCHANGED <<text_input, submit_button, file_download, input_png,
                   output_png, input_card, output_card, size_spinner,
                   max_static_text, color_picker, transparency_checkbox,
                   detect_checkbox, notifications, requested, floor_since>>

\* The user picks a colour (possible only while the picker is enabled).
PickColor(hex) ==
    /\ ~color_picker.disabled
    /\ hex # color_picker.value
    /\ color_picker' = [color_picker EXCEPT !.value = hex]
    /\ call' = Idle
    /\ UNCHANGED <<text_input, submit_button, file_download, input_png,
                   output_png, input_card, output_card, size_spinner,
                   max_static_text, transparency_checkbox, detect_checkbox,
                   match_checkbox, notifications, requested, floor_since>>

\* The user sets the desired size; the spinner has no lower bound.
SetSize(size) ==
    /\ size # size_spinner
    /\ size_spinner' = size
    /\ requested' = size
    /\ floor_since' = 0
    /\ call' = Idle
    /\ UNCHANGED <<text_input, submit_button, file_download, input_png,
                   output_png, input_card, output_card, max_static_text,
                   color_picker, transparency_checkbox, detect_checkbox,
                   match_checkbox, notifications>>

(***************************************************************************)
(* process_url (lines 144-178), the submit button's on_click handler.  The *)
(* handler runs to completion: the three loading flags it sets on entry    *)
(* are cleared by its finally clause before any other event is served.     *)
(***************************************************************************)
ErrorNote == [kind |-> "error", hex |-> <<>>, rgb |-> <<>>]

\* urlopen or Image.open raised: the except clause notifies, nothing else
\* has been written.
FailedBeforeImage(resource) ==
    /\ resource.kind # "image"
    /\ notifications' = <<ErrorNote>>
    /\ call' = [Idle EXCEPT !.outcome = "error", !.resource = resource]
    /\ UNCHANGED <<file_download, input_png, output_png, input_card,
                   output_card, size_spinner, max_static_text, color_picker,
                   floor_since>>

\* The picture was opened: lines 162-172, stopping at line 165 when
\* squarify_image raises.
Processed(resource) ==
    /\ resource.kind = "image"
    /\ \E t \in {add_transparency(resource.image, detect_checkbox.value,
                                   match_checkbox.value, color_picker.value)} :
       \E source \in {IF transparency_checkbox THEN t.image ELSE resource.image} :
       \E q \in {squarify_image(source, size_spinner)} :
       \E notes \in {IF transparency_checkbox THEN t.notes ELSE <<>>} :
          /\ input_png' = [object |-> <<resource.image>>, loading |-> FALSE]
          /\ color_picker' =
                IF transparency_checkbox
                THEN [color_picker EXCEPT !.value = t.picker]
                ELSE color_picker
          /\ input_card' = q.input_title
          /\ max_static_text' = <<q.max_size>>
          /\ size_spinner' = q.spinner
          /\ output_card' = q.output_title
          /\ IF q.raised
             THEN /\ notifications' = notes \o <<ErrorNote>>
                  /\ UNCHANGED <<output_png, file_download>>
             ELSE /\ notifications' = notes
                  /\ output_png' = [object |-> <<q.image>>, loading |-> FALSE]
                  /\ file_download' = [file |-> <<q.image>>, disabled |-> FALSE]
          /\ floor_since' = IF floor_since = 0 THEN q.max_size
                                                ELSE Min(floor_since, q.max_size)
          /\ call' = [outcome      |-> IF q.raised THEN "error" ELSE "ok",
                      resource     |-> resource,
                      keyed        |-> transparency_checkbox,
                      detect       |-> detect_checkbox.value,
                      match        |-> match_checkbox.value,
                      picker       |-> color_picker.value,
                      used         |-> IF transparency_checkbox THEN t.used
                                                                ELSE <<>>,
                      source       |-> source,
                      squarified   |-> TRUE,
                      spinner      |-> size_spinner,
                      max_size     |-> q.max_size,
                      desired_size |-> q.desired_size,
                      center_x     |-> q.center_x,
                      center_y     |-> q.center_y,
                      canvas       |-> q.canvas,
                      result       |-> q.image]

\* The user clicks Submit (possible only while the button is enabled); the
\* URL in the field serves `resource`.
Submit(resource) ==
    /\ ~submit_button.disabled
    /\ submit_button' = [submit_button EXCEPT !.loading = FALSE]
    /\ \/ FailedBeforeImage(resource)
       \/ Processed(resource)
    /\ UNCHANGED <<text_input, transparency_checkbox, detect_checkbox,
                   match_checkbox, requested>>

Next ==
    \/ \E url \in Urls : EditUrl(url)
    \/ ToggleTransparency
    \/ ToggleDetect
    \/ ToggleMatch
    \/ \E hex \in PickerChoices : PickColor(hex)
    \/ \E size \in SizeChoices : SetSize(size)
    \/ \E resource \in Resources : Submit(resource)

Spec == Init /\ [][Next]_vars

(***************************************************************************)
(* The widgets alone: every event but the click on Submit.                 *)
(***************************************************************************)
NextWidgets ==
    \/ \E url \in Urls : EditUrl(url)
    \/ ToggleTransparency
    \/ ToggleDetect
    \/ ToggleMatch
    \/ \E hex \in PickerChoices : PickColor(hex)
    \/ \E size \in SizeChoices : SetSize(size)

SpecWidgets == Init /\ [][NextWidgets]_vars

(***************************************************************************)
(* A session of submits: the user has typed a URL and set the widgets up   *)
(* (any setting the events above lead to), then clicks Submit again and    *)
(* again, each time with the URL serving some resource, and touches no     *)
(* widget in between.                                                      *)
(***************************************************************************)
InitSession ==
    /\ text_input = <<"u">>
    /\ submit_button = [disabled |-> FALSE, loading |-> FALSE]
    /\ file_download = [file |-> <<>>, disabled |-> TRUE]
    /\ input_png = [object |-> <<>>, loading |-> FALSE]
    /\ output_png = [object |-> <<>>, loading |-> FALSE]
    /\ input_card = <<>>
    /\ output_card = <<>>
    /\ size_spinner \in SizeChoices
    /\ max_static_text = <<>>
    /\ transparency_checkbox \in BOOLEAN
    /\ detect_checkbox \in
          {[value |-> v, disabled |-> ~transparency_checkbox] : v \in BOOLEAN}
    /\ match_checkbox \in
          {[value |-> v, disabled |-> ~transparency_checkbox] : v \in BOOLEAN}
    /\ color_picker \in
          {[value |-> hex, disabled |-> d] :
             hex \in PickerChoices,
             d \in IF transparency_checkbox /\ detect_checkbox.value
                   THEN BOOLEAN ELSE {~transparency_checkbox}}
    /\ notifications = <<>>
    /\ call = Idle
    /\ requested = size_spinner
    /\ floor_since = 0

NextSession == \E resource \in Resources : Submit(resource)

SpecSession == InitSession /\ [][NextSession]_vars

(***************************************************************************)
(* Properties of squarify_image and add_transparency, checked on every run *)
(* of process_url of a session (SpecSession).                              *)
(***************************************************************************)
\* The picture the resource decoded to, before any transformation.
Opened == call.resource.image

LongerSide(image) == IF image.w < image.h THEN image.h ELSE image.w

\* floor(n / 2) for n >= 0, stated without the division: the k with
\* 2k <= n < 2k + 2.
FloorHalf(n) == CHOOSE k \in 0..n : 2 * k <= n /\ n < 2 * k + 2

\* C1: for a source of width W and height H and a positive desired size D,
\* squarify returns an image whose width and height are both effectiveSize,
\* where effectiveSize is D when D <= max(W, H) and max(W, H) otherwise; the
\* output is never larger than max(W, H), and the output resolution shown
\* to the caller is the size of the returned image.
C1_SquareOfEffectiveSize ==
    (call.squarified /\ call.spinner > 0) =>
        LET m   == LongerSide(call.source)
            eff == IF call.spinner <= m THEN call.spinner ELSE m
        IN  /\ call.outcome = "ok"
            /\ output_png.object = <<call.result>>
            /\ call.result.w = eff
            /\ call.result.h = eff
            /\ Len(call.result.px) = eff * eff
            /\ eff <= m
            /\ output_card = <<call.result.w, call.result.h>>

\* A run that clamped: the desired size was above the longer side of a
\* picture that is not square, and the result has the longer side's size.
C1_Witness ==
    /\ call.squarified
    /\ call.source.w # call.source.h
    /\ call.spinner > LongerSide(call.source)
    /\ call.result.w = LongerSide(call.source)
    /\ call.result.h = LongerSide(call.source)

\* C2: before resampling, squarify builds an S x S canvas, S = max(W, H), with
\* the source pasted at offsetX = floor((S - W) / 2), offsetY =
\* floor((S - H) / 2): a canvas position inside the pasted box holds the
\* source pixel, alpha included, and every other position has alpha 0.  A
\* 100x150 source gives offsetX = 25, offsetY = 0.
C2_CanvasPaste ==
    /\ Center(LongerSide([w |-> 100, h |-> 150]), 100) = 25
    /\ Center(LongerSide([w |-> 100, h |-> 150]), 150) = 0
    /\ call.squarified =>
          LET src == call.source
              S   == LongerSide(src)
              ox  == FloorHalf(S - src.w)
              oy  == FloorHalf(S - src.h)
          IN  /\ call.canvas.w = S
              /\ call.canvas.h = S
              /\ Len(call.canvas.px) = S * S
              /\ call.center_x = ox
              /\ call.center_y = oy
              /\ \A x \in 0..(S - 1), y \in 0..(S - 1) :
                    IF /\ ox <= x /\ x < ox + src.w
                       /\ oy <= y /\ y < oy + src.h
                    THEN PixelAt(call.canvas, x, y)
                            = PixelAt(src, x - ox, y - oy)
                    ELSE PixelAt(call.canvas, x, y)[4] = 0

\* A picture pasted off the corner, with an odd difference somewhere else in
\* reach, whose pixels include a coloured one of alpha 0.
C2_Witness ==
    /\ call.squarified
    /\ call.center_x + call.center_y > 0
    /\ \E i \in 1..Len(call.source.px) :
          /\ call.source.px[i][4] = 0
          /\ RGB(call.source.px[i]) # <<255, 255, 255>>

\* The largest of the three channel differences between a pixel and a colour.
Chebyshev(pixel, colour) ==
    LET d(c) == IF pixel[c] < colour[c] THEN colour[c] - pixel[c]
                                        ELSE pixel[c] - colour[c]
    IN  IF d(1) >= d(2) /\ d(1) >= d(3) THEN d(1)
        ELSE IF d(2) >= d(3) THEN d(2) ELSE d(3)

\* C3: when the exact-match flag is false, colour keying gives every output
\* pixel alpha = max(|r - used.r|, |g - used.g|, |b - used.b|), whatever the
\* pixel's source alpha, and leaves its RGB channels unchanged; a pixel equal
\* to usedColor gets alpha 0 and, with usedColor white, a black pixel 255.
C3_FuzzyAlpha ==
    (call.keyed /\ ~call.match) =>
        \A i \in 1..Len(Opened.px) :
            /\ RGB(call.source.px[i]) = RGB(Opened.px[i])
            /\ call.source.px[i][4] = Chebyshev(Opened.px[i], call.used)

\* C4: when the exact-match flag is true, colour keying gives every output
\* pixel alpha 0 if its RGB equals usedColor or its source alpha is 0, and
\* alpha 255 otherwise; the RGB channels of every pixel and the width and
\* height of the image are unchanged.
C4_ExactAlpha ==
    (call.keyed /\ call.match) =>
        /\ call.source.w = Opened.w
        /\ call.source.h = Opened.h
        /\ Len(call.source.px) = Len(Opened.px)
        /\ \A i \in 1..Len(Opened.px) :
              /\ RGB(call.source.px[i]) = RGB(Opened.px[i])
              /\ call.source.px[i][4] \in {0, 255}
              /\ call.source.px[i][4] = 0 <=>
                    (RGB(Opened.px[i]) = call.used \/ Opened.px[i][4] = 0)

\* An exact-mode run over a picture holding a pixel of the keyed colour, a
\* pixel of another colour with alpha 0 and one of partial alpha.
C4_Witness ==
    /\ call.keyed
    /\ call.match
    /\ \E i, j, k \in 1..Len(Opened.px) :
          /\ RGB(Opened.px[i]) = call.used /\ Opened.px[i][4] = 255
          /\ RGB(Opened.px[j]) # call.used /\ Opened.px[j][4] = 0
          /\ Opened.px[k][4] = 128 /\ call.source.px[k][4] = 255

\* C5: with auto-detect on, usedColor is the RGB triple of the source pixel
\* at (0, 0), whatever that pixel's alpha and whatever colour was supplied,
\* and that triple is what is reported to the caller; with auto-detect off,
\* usedColor is the supplied colour.
C5_ColourResolution ==
    call.keyed =>
        IF call.detect
        THEN /\ call.used = RGB(PixelAt(Opened, 0, 0))
             /\ Len(notifications) >= 1
             /\ notifications[1].kind = "info"
             /\ notifications[1].rgb = RGB(PixelAt(Opened, 0, 0))
             /\ GetRGB(notifications[1].hex) = RGB(PixelAt(Opened, 0, 0))
             /\ GetRGB(color_picker.value) = RGB(PixelAt(Opened, 0, 0))
        ELSE /\ call.used = GetRGB(call.picker)
             /\ color_picker.value = call.picker

\* Detection on a picture whose corner pixel is transparent, of a colour
\* other than the supplied one and other than the opposite corner's.
C5_Witness ==
    /\ call.keyed
    /\ call.detect
    /\ PixelAt(Opened, 0, 0)[4] = 0
    /\ RGB(PixelAt(Opened, 0, 0)) # GetRGB(call.picker)
    /\ RGB(PixelAt(Opened, 0, 0)) # RGB(PixelAt(Opened, Opened.w - 1, Opened.h - 1))

\* C6: squarify applied to the result of squarify, with the same effective
\* size, returns that result unchanged (offset (0, 0), the canvas is the
\* input, resampling to the same size changes no pixel); and squarify of a
\* square N x N image with desired size N returns the same pixels.
C6_Idempotent ==
    (call.squarified /\ call.outcome = "ok") =>
        LET again == squarify_image(call.result, call.desired_size)
        IN  /\ ~again.raised
            /\ again.center_x = 0
            /\ again.center_y = 0
            /\ again.canvas = call.result
            /\ again.image = call.result
            /\ again.desired_size = call.desired_size
            /\ (call.source.w = call.source.h /\ call.spinner = call.source.w)
                  => call.result = call.source

\* A result that kept a pixel of partial alpha, from a picture that was not
\* square.
C6_Witness ==
    /\ call.squarified
    /\ call.outcome = "ok"
    /\ call.source.w # call.source.h
    /\ \E i \in 1..Len(call.result.px) : call.result.px[i][4] = 128

(***************************************************************************)
(* Properties of a sequence of runs.                                       *)
(***************************************************************************)
Smaller(a, b) == IF a < b THEN a ELSE b

HasError(notes) == \E i \in 1..Len(notes) : notes[i].kind = "error"

\* C8: a non-positive desired size is rejected by squarify's own validation
\* before any processing: the run fails with squarify having written
\* nothing (max size, titles, spinner), no output image is produced and the
\* value is not coerced.
C8_RejectedBeforeProcessing ==
    [][(call' # Idle /\ call'.resource.kind = "image" /\ size_spinner <= 0) =>
          /\ call'.outcome = "error"
          /\ HasError(notifications')
          /\ size_spinner' = size_spinner
          /\ max_static_text' = max_static_text
          /\ input_card' = input_card
          /\ output_card' = output_card
          /\ output_png' = output_png
          /\ file_download' = file_download]_vars

\* C9: if processing a submitted URL fails at any step, an error
\* notification is raised and every result-side observable is as it was
\* before the submit: the output image, the output resolution title, the
\* max size, the desired size, the downloadable file and its enabled flag;
\* the loading indicators are cleared when processing ends.
C9_NoPartialResults ==
    [][(call' # Idle /\ call'.outcome = "error") =>
          /\ HasError(notifications')
          /\ output_png' = output_png
          /\ output_card' = output_card
          /\ max_static_text' = max_static_text
          /\ size_spinner' = size_spinner
          /\ file_download' = file_download
          /\ ~submit_button'.loading
          /\ ~input_png'.loading
          /\ ~output_png'.loading]_vars

(***************************************************************************)
(* Properties of the widget links (SpecWidgets).                           *)
(***************************************************************************)
\* C10: after any sequence of URL edits and checkbox toggles, the submit
\* button is disabled exactly when the URL is empty; the auto-detect and
\* match checkboxes are disabled exactly when transparency is unchecked; and
\* the colour picker is enabled only when transparency is checked and
\* auto-detect is unchecked.
C10_WidgetEnable ==
    /\ submit_button.disabled <=> (Len(text_input) = 0)
    /\ detect_checkbox.disabled <=> ~transparency_checkbox
    /\ match_checkbox.disabled <=> ~transparency_checkbox
    /\ ~color_picker.disabled =>
          (transparency_checkbox /\ ~detect_checkbox.value)

====
